---- MODULE Spec2Model ----
(***************************************************************************)
(* Model of NessusClient (src/NessusClient/nessus_client.py): one client   *)
(* object, its requests session, and one action per client method.  Every  *)
(* method issues one HTTP request through the session and interprets the   *)
(* response; the server's answer is an input of the action.                *)
(*                                                                         *)
(* Python values are written as sequences of length at most one: None is   *)
(* <<>> and a value v is <<v>>, so that None, 0 and "" stay distinct.       *)
(***************************************************************************)
EXTENDS Integers, Sequences, FiniteSets, TLC

VARIABLES
    username,   \* self.username
    password,   \* self.password
    base_url,   \* self.base_url
    headers,    \* self.session.headers
    verify,     \* self.session.verify
    ctor,       \* the arguments the constructor was called with
    token,      \* history: token of the latest session_create that got 200 and stored it
    last        \* the latest operation: its arguments, request, response and outcome

vars == <<username, password, base_url, headers, verify, ctor, token, last>>

\* The session state of the client object.
self_state == <<username, password, base_url, headers, verify>>

----------------------------------------------------------------------------
\* Python values

None == <<>>
Some(v) == <<v>>

\* bool(x) of an optional string argument
TruthyStr(x) == x # None /\ x[1] # ""

\* bool(x) of an optional int argument
TruthyInt(x) == x # None /\ x[1] # 0

----------------------------------------------------------------------------
\* Bounds and input sets

\* largest value of an optional integer argument (unix times, ids)
MaxInt == 1

Servers == {"https://nessus:8834"}
\* (username, password) as the caller passes them
Credentials == {<<None, None>>, <<Some("admin"), Some("pw")>>}
\* (access_key, secret_key) as the caller passes them: none, both, an empty
\* access key, a missing secret key
KeyPairs == {<<None, None>>, <<Some("ak"), Some("sk")>>, <<Some(""), Some("sk")>>,
             <<Some("ak"), None>>}

StatusCodes == {200, 404, 503}

\* response bodies: two token documents, a JSON document without a token
\* and a body that is not JSON
TextT1 == "{\"token\": \"abc123\"}"
TextT2 == "{\"token\": \"zz9\"}"
TextScans == "{\"scans\": []}"
TextHtml == "<html>oops</html>"
Texts == {TextT1, TextT2, TextScans, TextHtml}

RespHeaders == ("Content-Type" :> "application/json")

\* what the server may answer: any body with 200, an error page with the
\* other status codes, and a token document with 404
Responses ==
    [status_code : {200}, headers : {RespHeaders}, text : Texts]
        \cup [status_code : StatusCodes \ {200}, headers : {RespHeaders}, text : {TextHtml}]
        \cup [status_code : {404}, headers : {RespHeaders}, text : {TextT1}]

OptInts == {None} \cup {Some(i) : i \in 0..MaxInt}
ScanIds == {7}
HostIds == {2}
PluginIds == {19506}
FileIds == {3}
Formats == {"csv"}
AttachmentIds == {"att1"}
AttachmentKeys == {"k"}
Uuids == {"uuid-1"}
Settings == {[name |-> "weekly"]}

\* the boolean keyword arguments of scans_export_request
ToggleArgs ==
    {"scan_info", "host_info", "base_score", "synopsis", "description", "see_also",
     "solution", "temporal_score", "risk_factor", "base_score_v3", "temporal_score_v3",
     "stig", "references", "exploitable_with", "plugin_info", "plugin_output"}

\* the toggles a caller passes as False: none, or any single one
OffSets == {{}} \cup {{t} : t \in ToggleArgs}

----------------------------------------------------------------------------
\* The response object

\* response.json() succeeds
IsJson(text) == text \in {TextT1, TextT2, TextScans}

\* response.json(): the decoded document
json(text) ==
    CASE text = TextT1 -> [token |-> "abc123"]
      [] text = TextT2 -> [token |-> "zz9"]
      [] text = TextScans -> [scans |-> <<>>]

\* response.content: the undecoded body
content(text) == [bytes |-> text]

\* the outcome of a call: return value, exception, what was printed
Outcome(ret, raised, printed) == [ret |-> ret, raised |-> raised, printed |-> printed]

\* print(response.status_code, "\n", response.headers, "\n", response.text)
diagnostic(resp) == Some(<<resp.status_code, "\n", resp.headers, "\n", resp.text>>)

\* a method that returns the undecoded body where the decoded one is due
json_or_print_raw(resp) ==
    IF resp.status_code = 200
    THEN Outcome(Some(content(resp.text)), "none", None)
    ELSE Outcome(None, "none", diagnostic(resp))

\* if status == 200: return response.json()  else: print(...)
json_or_print(resp) ==
    IF resp.status_code = 200
    THEN IF IsJson(resp.text)
         THEN Outcome(Some(json(resp.text)), "none", None)
         ELSE Outcome(None, "JSONDecodeError", None)
    ELSE Outcome(None, "none", diagnostic(resp))

\* if status == 200: return response.content  else: print(...)
content_or_print(resp) ==
    IF resp.status_code = 200
    THEN Outcome(Some(content(resp.text)), "none", None)
    ELSE Outcome(None, "none", diagnostic(resp))

----------------------------------------------------------------------------
\* The request a method hands to self.session; hdrs is the session's header
\* map at the time of the call (no method passes headers of its own).

Request(verb, url, params, js, data) ==
    [verb |-> verb, url |-> url, params |-> params, json |-> js,
     data |-> data, hdrs |-> headers]

Call(method, args, req, resp, out) ==
    [method |-> method, args |-> args, req |-> req, resp |-> resp,
     ret |-> out.ret, raised |-> out.raised, printed |-> out.printed]

----------------------------------------------------------------------------
\* Construction

\* requests.session().headers
default_headers ==
    ("User-Agent" :> "python-requests") @@ ("Accept-Encoding" :> "gzip, deflate")
        @@ ("Accept" :> "*/*") @@ ("Connection" :> "keep-alive")

\* a key header with the two keys in the wrong places
api_keys_header_swapped(access_key, secret_key) ==
    "accessKey=" \o secret_key[1] \o "; secretKey=" \o access_key[1]

\* f"accessKey={access_key}; secretKey={secret_key}"
api_keys_header(access_key, secret_key) ==
    "accessKey=" \o access_key[1] \o "; secretKey=" \o secret_key[1]

\* NessusClient.__init__: the object after construction and the requests it sent
__init__(server, user, pass, access_key, secret_key, verify_cert) ==
    [username |-> user,
     password |-> pass,
     base_url |-> server,
     verify |-> verify_cert,
     headers |-> IF TruthyStr(access_key) /\ TruthyStr(secret_key)
                 THEN ("X-ApiKeys" :> api_keys_header(access_key, secret_key))
                 ELSE default_headers,
     req |-> None]

Init ==
    \E server \in Servers, cred \in Credentials, keys \in KeyPairs, verify_cert \in BOOLEAN :
        LET user == cred[1]
            pass == cred[2]
            access_key == keys[1]
            secret_key == keys[2]
            obj == __init__(server, user, pass, access_key, secret_key, verify_cert)
            args == [server |-> server, username |-> user, password |-> pass,
                     access_key |-> access_key, secret_key |-> secret_key,
                     verify_cert |-> verify_cert]
        IN
        /\ username = obj.username
        /\ password = obj.password
        /\ base_url = obj.base_url
        /\ headers = obj.headers
        /\ verify = obj.verify
        /\ ctor = args
        /\ token = None
        /\ last = [method |-> "__init__", args |-> Some(args), req |-> obj.req, resp |-> None,
                   ret |-> None, raised |-> "none", printed |-> None]

----------------------------------------------------------------------------
\* Session establishment

NoArgs == Some([x \in {} |-> None])

\* a cookie value that lacks the closing semicolon
cookie_header_bare(tok) == "token=" \o tok

\* f'token={response.json()["token"]};'
cookie_header(tok) == "token=" \o tok \o ";"

\* a session whose header map is replaced by the cookie alone
store_cookie_alone(hdrs, tok) == ("X-Cookie" :> cookie_header(tok))

\* self.session.headers["X-Cookie"] = ...: one entry set, the others kept
store_cookie(hdrs, tok) == ("X-Cookie" :> cookie_header(tok)) @@ hdrs

session_create ==
    \E resp \in Responses :
        LET payload == [username |-> username, password |-> password]
            req == Request("POST", base_url \o "/session", None, Some(payload), None)
            stored == resp.status_code = 200 /\ IsJson(resp.text)
                        /\ "token" \in DOMAIN json(resp.text)
            out == IF resp.status_code = 200
                   THEN IF ~IsJson(resp.text) THEN Outcome(None, "JSONDecodeError", None)
                        ELSE IF "token" \notin DOMAIN json(resp.text)
                             THEN Outcome(None, "KeyError", None)
                             ELSE Outcome(None, "none", None)
                   ELSE Outcome(None, "none", diagnostic(resp))
        IN
        /\ headers' = IF stored
                      THEN store_cookie(headers, json(resp.text).token)
                      ELSE headers
        /\ token' = IF stored THEN Some(json(resp.text).token) ELSE token
        /\ last' = Call("session_create", NoArgs, Some(req), Some(resp), out)
        /\ UNCHANGED <<username, password, base_url, verify, ctor>>

----------------------------------------------------------------------------
\* The other methods leave the object alone

Frame == UNCHANGED <<username, password, base_url, headers, verify, ctor, token>>

server_properties ==
    \E resp \in Responses :
        LET req == Request("GET", base_url \o "/server/properties", None, None, None) IN
        /\ last' = Call("server_properties", NoArgs, Some(req), Some(resp), json_or_print(resp))
        /\ Frame

\* the literal returned on 503
SessionDestroy == [status |-> "503 - Session Destroy required."]

\* a server_status that answers every failure with the 503 literal
server_status_any_failure ==
    \E resp \in Responses :
        LET req == Request("GET", base_url \o "/server/status", None, None, None)
            out == IF resp.status_code = 200
                   THEN IF IsJson(resp.text)
                        THEN Outcome(Some(json(resp.text)), "none", None)
                        ELSE Outcome(None, "JSONDecodeError", None)
                   ELSE Outcome(Some(SessionDestroy), "none", None)
        IN
        /\ last' = Call("server_status", NoArgs, Some(req), Some(resp), out)
        /\ Frame

server_status ==
    \E resp \in Responses :
        LET req == Request("GET", base_url \o "/server/status", None, None, None)
            out == IF resp.status_code = 200
                   THEN IF IsJson(resp.text)
                        THEN Outcome(Some(json(resp.text)), "none", None)
                        ELSE Outcome(None, "JSONDecodeError", None)
                   ELSE IF resp.status_code = 503
                        THEN Outcome(Some(SessionDestroy), "none", None)
                        ELSE Outcome(None, "none", None)
        IN
        /\ last' = Call("server_status", NoArgs, Some(req), Some(resp), out)
        /\ Frame

\* a dict with the entry k: v added when cond holds
AddIf(cond, k, v, dict) == IF cond THEN (k :> v) @@ dict ELSE dict

EmptyDict == [x \in {} |-> None]

server_health_alerts ==
    \E resp \in Responses, end_time \in OptInts, start_time \in OptInts :
        LET params == AddIf(TruthyInt(start_time), "start_time", start_time,
                      AddIf(TruthyInt(end_time), "end_time", end_time, EmptyDict))
            req == Request("GET", base_url \o "/settings/health/alerts", Some(params), None, None)
        IN
        /\ last' = Call("server_health_alerts",
                        Some([end_time |-> end_time, start_time |-> start_time]),
                        Some(req), Some(resp), json_or_print(resp))
        /\ Frame

\* a scans_attachment that keeps its access token in the session's headers
scans_attachment_keeps_key ==
    \E resp \in Responses, scan_id \in {"7"}, attachment_id \in AttachmentIds, key \in AttachmentKeys :
        LET req == Request("GET", base_url \o "/scans/" \o scan_id \o "/attachments/" \o attachment_id,
                           None, None, None)
        IN
        /\ last' = Call("scans_attachment",
                        Some([scan_id |-> scan_id, attachment_id |-> attachment_id, key |-> key]),
                        Some(req), Some(resp), content_or_print(resp))
        /\ headers' = ("X-Key" :> key) @@ headers
        /\ UNCHANGED <<username, password, base_url, verify, ctor, token>>

scans_attachment ==
    \E resp \in Responses, scan_id \in {"7"}, attachment_id \in AttachmentIds, key \in AttachmentKeys :
        LET req == Request("GET", base_url \o "/scans/" \o scan_id \o "/attachments/" \o attachment_id,
                           None, None, None)
        IN
        /\ last' = Call("scans_attachment",
                        Some([scan_id |-> scan_id, attachment_id |-> attachment_id, key |-> key]),
                        Some(req), Some(resp), content_or_print(resp))
        /\ Frame

scans_configure ==
    \E resp \in Responses, scan_id \in ScanIds, uuid \in Uuids, settings \in Settings :
        LET payload == [uuid |-> uuid, settings |-> settings]
            req == Request("PUT", base_url \o "/scans/" \o ToString(scan_id), None, None, Some(payload))
        IN
        /\ last' = Call("scans_configure",
                        Some([scan_id |-> scan_id, uuid |-> uuid, settings |-> settings]),
                        Some(req), Some(resp), json_or_print(resp))
        /\ Frame

scans_details ==
    \E resp \in Responses, scan_id \in ScanIds :
        LET req == Request("GET", base_url \o "/scans/" \o ToString(scan_id), None, None, None) IN
        /\ last' = Call("scans_details", Some([scan_id |-> scan_id]),
                        Some(req), Some(resp), json_or_print(resp))
        /\ Frame

scans_export_formats ==
    \E resp \in Responses, scan_id \in ScanIds :
        LET req == Request("GET", base_url \o "/scans/" \o ToString(scan_id) \o "/export/formats",
                           None, None, None)
        IN
        /\ last' = Call("scans_export_formats", Some([scan_id |-> scan_id]),
                        Some(req), Some(resp), json_or_print(resp))
        /\ Frame

scans_export_download ==
    \E resp \in Responses, scan_id \in ScanIds, file_id \in FileIds :
        LET req == Request("GET", base_url \o "/scans/" \o ToString(scan_id) \o "/export/"
                                    \o ToString(file_id) \o "/download", None, None, None)
        IN
        /\ last' = Call("scans_export_download", Some([scan_id |-> scan_id, file_id |-> file_id]),
                        Some(req), Some(resp), content_or_print(resp))
        /\ Frame

\* the body of an export request; off is the set of toggles passed as False
export_payload(format, off) ==
    [format |-> format,
     reportContents |->
        [hostSections |->
            [host_information |-> "host_info" \notin off,
             scan_information |-> "scan_info" \notin off],
         vulnerabilitySections |->
            [description |-> "description" \notin off,
             see_also |-> "see_also" \notin off,
             solution |-> "solution" \notin off,
             risk_factor |-> "risk_factor" \notin off,
             cvss_base_score |-> "base_score" \notin off,
             cvss_temporal_score |-> "temporal_score" \notin off,
             cvss3_base_score |-> "base_score_v3" \notin off,
             cvss3_temporal_score |-> "temporal_score_v3" \notin off,
             stig_severity |-> "stig" \notin off,
             references |-> "references" \notin off,
             exploitable_with |-> "exploitable_with" \notin off,
             plugin_information |-> "plugin_info" \notin off,
             plugin_output |-> "plugin_output" \notin off]]]

scans_export_request ==
    \E resp \in Responses, scan_id \in ScanIds, format \in Formats, off \in OffSets :
        LET payload == export_payload(format, off)
            req == Request("POST", base_url \o "/scans/" \o ToString(scan_id) \o "/export",
                           None, None, Some(payload))
        IN
        /\ last' = Call("scans_export_request",
                        Some([scan_id |-> scan_id, format |-> format, off |-> off]),
                        Some(req), Some(resp), json_or_print(resp))
        /\ Frame

scans_export_status ==
    \E resp \in Responses, scan_id \in ScanIds, file_id \in FileIds :
        LET req == Request("GET", base_url \o "/scans/" \o ToString(scan_id) \o "/export/"
                                    \o ToString(file_id) \o "/status", None, None, None)
        IN
        /\ last' = Call("scans_export_status", Some([scan_id |-> scan_id, file_id |-> file_id]),
                        Some(req), Some(resp), json_or_print(resp))
        /\ Frame

scans_host_details ==
    \E resp \in Responses, scan_id \in ScanIds, host_id \in HostIds :
        LET req == Request("GET", base_url \o "/scans/" \o ToString(scan_id) \o "/hosts/"
                                    \o ToString(host_id), None, None, None)
        IN
        /\ last' = Call("scans_host_details", Some([scan_id |-> scan_id, host_id |-> host_id]),
                        Some(req), Some(resp), json_or_print(resp))
        /\ Frame

scans_list ==
    \E resp \in Responses, folder_id \in OptInts, last_mod_date \in OptInts :
        LET params == [folder_id |-> folder_id, last_modification_date |-> last_mod_date]
            req == Request("GET", base_url \o "/scans", Some(params), None, None)
        IN
        /\ last' = Call("scans_list",
                        Some([folder_id |-> folder_id, last_mod_date |-> last_mod_date]),
                        Some(req), Some(resp), json_or_print(resp))
        /\ Frame

scans_plugin_output ==
    \E resp \in Responses, scan_id \in ScanIds, host_id \in HostIds, plugin_id \in PluginIds,
       history_id \in OptInts :
        LET params == IF TruthyInt(history_id) THEN Some([history_id |-> history_id]) ELSE None
            req == Request("GET", base_url \o "/scans/" \o ToString(scan_id) \o "/hosts/"
                                    \o ToString(host_id) \o "/plugins/" \o ToString(plugin_id),
                           params, None, None)
        IN
        /\ last' = Call("scans_plugin_output",
                        Some([scan_id |-> scan_id, host_id |-> host_id, plugin_id |-> plugin_id,
                              history_id |-> history_id]),
                        Some(req), Some(resp), json_or_print(resp))
        /\ Frame

----------------------------------------------------------------------------
Next ==
    \/ session_create
    \/ server_properties
    \/ server_status
    \/ server_health_alerts
    \/ scans_attachment
    \/ scans_configure
    \/ scans_details
    \/ scans_export_formats
    \/ scans_export_download
    \/ scans_export_request
    \/ scans_export_status
    \/ scans_host_details
    \/ scans_list
    \/ scans_plugin_output

Spec == Init /\ [][Next]_vars

----------------------------------------------------------------------------
\* Properties

Called == last.method # "__init__"
Status == last.resp[1].status_code
Body == last.resp[1].text
Sent == last.req[1]

JsonMethods ==
    {"server_properties", "server_status", "server_health_alerts", "scans_configure",
     "scans_details", "scans_export_formats", "scans_export_request", "scans_export_status",
     "scans_host_details", "scans_list", "scans_plugin_output"}
BinaryMethods == {"scans_attachment", "scans_export_download"}

\* C1: every method call answered with a status other than 200 (other than
\* 503 on server_status) returns None, prints status, headers and body, and
\* raises nothing.
C1_FailureReturnsNoneAndPrints ==
    (Called /\ Status # 200 /\ ~(last.method = "server_status" /\ Status = 503))
        => /\ last.ret = None
           /\ last.raised = "none"
           /\ last.printed = Some(<<Status, "\n", last.resp[1].headers, "\n", Body>>)

HasApiKeys == "X-ApiKeys" \in DOMAIN headers
HasCookie == "X-Cookie" \in DOMAIN headers
KeysGiven == ctor.access_key \notin {None, Some("")} /\ ctor.secret_key \notin {None, Some("")}

\* C2 as stated: the header map holds X-ApiKeys or X-Cookie, never both and
\* never neither, and which one is fixed by the constructor arguments.
C2_ExactlyOneStrategy ==
    /\ HasApiKeys # HasCookie
    /\ HasApiKeys <=> KeysGiven

\* C2 as amended: X-ApiKeys is present exactly when the constructor got two
\* non-empty keys, with the value the constructor gave it, and X-Cookie is
\* present exactly when some session_create has stored a token; the map may
\* hold neither or both.
C2_StrategyFixedAtConstruction ==
    /\ HasApiKeys <=> KeysGiven
    /\ HasApiKeys => headers["X-ApiKeys"] =
            "accessKey=" \o ctor.access_key[1] \o "; secretKey=" \o ctor.secret_key[1]
    /\ HasCookie <=> token # None

C2_Witness ==
    /\ HasApiKeys /\ HasCookie
    /\ last.method = "session_create" /\ Status = 200

\* C3: once a session_create has stored token T, every request a later call
\* issues carries X-Cookie 'token=T;' for the newest such T, and the T stored
\* is the token of the 200 response's JSON body.
C3_CookieOnLaterRequests ==
    [][ /\ token # None =>
            /\ "X-Cookie" \in DOMAIN last'.req[1].hdrs
            /\ last'.req[1].hdrs["X-Cookie"] = "token=" \o token[1] \o ";"
        /\ (/\ last'.method = "session_create"
            /\ last'.resp[1].status_code = 200
            /\ last'.resp[1].text \in {TextT1, TextT2})
            => /\ token' = Some(IF last'.resp[1].text = TextT1 THEN "abc123" ELSE "zz9")
               /\ headers'["X-Cookie"] = "token=" \o token'[1] \o ";"
      ]_vars

C3_Witness ==
    /\ token = Some("abc123")
    /\ last.method = "scans_list"
    /\ Sent.hdrs["X-Cookie"] = "token=abc123;"

\* C4: construction with two keys sets X-ApiKeys to
\* 'accessKey=<access_key>; secretKey=<secret_key>' before any request is
\* sent, every request carries it, and construction sends no request.
C4_KeysHeaderAtConstruction ==
    /\ last.method = "__init__" => last.req = None
    /\ KeysGiven =>
        /\ HasApiKeys
        /\ headers["X-ApiKeys"] =
            "accessKey=" \o ctor.access_key[1] \o "; secretKey=" \o ctor.secret_key[1]
        /\ last.req # None => Sent.hdrs["X-ApiKeys"] = headers["X-ApiKeys"]

C4_Witness ==
    /\ last.method = "__init__"
    /\ ctor.access_key = Some("ak") /\ ctor.secret_key = Some("sk")
    /\ headers = ("X-ApiKeys" :> "accessKey=ak; secretKey=sk")

\* C5 as stated: every method answered 200 with a JSON body returns the
\* decoded body.
C5_EveryMethodPassesThrough ==
    (Called /\ Status = 200 /\ IsJson(Body)) => last.ret = Some(json(Body))

\* C5 as amended: answered 200 with a JSON body, the methods that decode
\* return the decoded body unchanged, scans_attachment and
\* scans_export_download return the undecoded body, and session_create
\* returns None.
C5_PassThroughByKind ==
    (Called /\ Status = 200 /\ IsJson(Body)) =>
        /\ last.method \in JsonMethods => last.ret = Some(json(Body))
        /\ last.method \in BinaryMethods => last.ret = Some([bytes |-> Body])
        /\ last.method = "session_create" => last.ret = None

C5_Witness ==
    /\ last.method = "scans_details" /\ Status = 200
    /\ Body = TextScans /\ last.ret = Some([scans |-> <<>>])

\* C6: among the responses other than 200, server_status returns
\* {"status": "503 - Session Destroy required."} exactly on 503, and no other
\* method returns it on 503.
C6_SentinelOnlyOn503 ==
    (Called /\ Status # 200) =>
        /\ last.method = "server_status" =>
            (last.ret = Some([status |-> "503 - Session Destroy required."]) <=> Status = 503)
        /\ last.method # "server_status" =>
            last.ret # Some([status |-> "503 - Session Destroy required."])

C6_Witness ==
    /\ last.method = "server_status" /\ Status = 503
    /\ last.ret = Some([status |-> "503 - Session Destroy required."])

\* C7: the mapping scans_list hands to the request holds folder_id, and
\* last_modification_date, only if the caller supplied it.
C7_ScansListOmitsUnsupplied ==
    last.method = "scans_list" =>
        /\ "folder_id" \in DOMAIN Sent.params[1] => last.args[1].folder_id # None
        /\ "last_modification_date" \in DOMAIN Sent.params[1] => last.args[1].last_mod_date # None

\* the query mapping of the request, {} when the method passed None
SentParams == IF Sent.params = None THEN EmptyDict ELSE Sent.params[1]

\* argument arg, supplied or not, is in the query under key with its value
\* exactly when it was supplied
InQueryIffSupplied(key, arg) ==
    /\ key \in DOMAIN SentParams <=> arg # None
    /\ key \in DOMAIN SentParams => SentParams[key] = arg

\* C8: end_time and start_time of server_health_alerts and history_id of
\* scans_plugin_output are in the query with the caller's value exactly when
\* the caller supplied one, 0 included.
C8_OptionalInQueryIffSupplied ==
    /\ last.method = "server_health_alerts" =>
        /\ InQueryIffSupplied("end_time", last.args[1].end_time)
        /\ InQueryIffSupplied("start_time", last.args[1].start_time)
    /\ last.method = "scans_plugin_output" =>
        InQueryIffSupplied("history_id", last.args[1].history_id)

\* the fields of an export body that are false
FalseFields(payload) ==
    LET hs == payload.reportContents.hostSections
        vs == payload.reportContents.vulnerabilitySections
    IN {<<"hostSections", k>> : k \in {f \in DOMAIN hs : ~hs[f]}}
        \cup {<<"vulnerabilitySections", k>> : k \in {f \in DOMAIN vs : ~vs[f]}}

\* C9: with no toggle overridden every field of the export body is true, and
\* a single toggle passed as False makes exactly one field false.
C9_EachToggleOneField ==
    last.method = "scans_export_request" =>
        /\ DOMAIN Sent.data[1].reportContents.hostSections =
                {"host_information", "scan_information"}
        /\ Cardinality(DOMAIN Sent.data[1].reportContents.vulnerabilitySections) = 13
        /\ last.args[1].off = {} => FalseFields(Sent.data[1]) = {}
        /\ Cardinality(last.args[1].off) = 1 => Cardinality(FalseFields(Sent.data[1])) = 1

\* C10: a step that is not a session_create answered 200 leaves username,
\* password, base_url, the header map and the TLS flag as they were.
C10_OnlySessionCreateOkChangesSession ==
    [][ (last'.method # "session_create" \/ last'.resp[1].status_code # 200)
            => self_state' = self_state ]_vars

C10_Witness ==
    /\ last.method = "session_create" /\ Status # 200
    /\ token = Some("abc123")
    /\ headers["X-Cookie"] = "token=abc123;"
====
